---- MODULE Spec2Model ----
(***************************************************************************)
(* Tenant credential store and aggregation pipeline of backend/app.py.     *)
(*                                                                         *)
(* Every HTTP request is handled by its own thread; the threads share the  *)
(* tenants file and the lock _TENANTS_LOCK.  Strings are sequences of      *)
(* one-character strings, so that strip(), startswith() and len() are      *)
(* computed as the code computes them.  A Python dict is a function whose  *)
(* domain is its set of keys.                                              *)
(***************************************************************************)
EXTENDS Integers, Sequences, FiniteSets, TLC

\* Number of requests (threads) of one run.
NumRequests == 2
\* Largest number of aggregations (data and sync requests) of one run.
MaxAggregations == 1
\* Largest number of user objects / license SKUs in one upstream answer.
MaxItems == 2

Requests == 1..NumRequests
NoOne == 0
\* t.get('id') of a record without an id (None)
NoId == -1

VARIABLES
    file,      \* tenants.json: [exists |-> BOOLEAN, data |-> list of tenant dicts]
    lock,      \* holder of _TENANTS_LOCK, or NoOne
    pc,        \* pc[r]: position of request r in its handler
    req,       \* req[r]: the request: route, path parameter, JSON payload
    tenants,   \* tenants[r]: the handler's local list `tenants` / `new_list`
    item,      \* item[r]: the handler's local `new_item` / `updated`
    agg,       \* agg[r]: locals of _collect_tenant_data
    resp,      \* resp[r]: the response (status, body) once the handler returned
    nextId,    \* number of uuid4() values drawn so far
    clock,     \* number of datetime.now() readings so far
    writes,    \* number of _TENANTS_FILE.write_text calls so far
    environ,   \* TENANT_SECRET_KEY in the environment of the latest process
    keyFile,   \* tenant_key.key: [exists |-> BOOLEAN, text |-> its contents]
    fernet     \* fernet[n]: the key of _FERNET in the n-th process started

\* The state that only the start of a process sets.
keyVars == <<environ, keyFile, fernet>>

vars == <<file, lock, pc, req, tenants, item, agg, resp, nextId, clock, writes,
          environ, keyFile, fernet>>

----------------------------------------------------------------------------
(* Strings *)

Blank == " "

RECURSIVE LStrip(_)
LStrip(s) == IF s # <<>> /\ Head(s) = Blank THEN LStrip(Tail(s)) ELSE s

RECURSIVE RStrip(_)
RStrip(s) ==
    IF s # <<>> /\ s[Len(s)] = Blank THEN RStrip(SubSeq(s, 1, Len(s) - 1)) ELSE s

\* str.strip()
Strip(s) == RStrip(LStrip(s))

\* str.startswith(prefix)
StartsWith(s, prefix) ==
    Len(s) >= Len(prefix) /\ SubSeq(s, 1, Len(prefix)) = prefix

\* dict.get(k, default)
Get(d, k, default) == IF k \in DOMAIN d THEN d[k] ELSE default

\* dict.update(kv) / writing d[k] = v for every key of kv
Update(d, kv) ==
    [k \in DOMAIN d \cup DOMAIN kv |-> IF k \in DOMAIN kv THEN kv[k] ELSE d[k]]

\* dict.pop(k, None) on a copy
Pop(d, k) == [j \in DOMAIN d \ {k} |-> d[j]]

----------------------------------------------------------------------------
(* Secret cipher *)

\* Every Fernet token is the base64 of 0x80 | timestamp | IV | ..., which
\* begins "gAAAA".
Magic == <<"g", "A", "A", "A", "A">>
\* len(value) > 20 of _looks_encrypted
MinTokenLen == 20
\* Characters of a token between the magic prefix and the ciphertext.
HeaderLen == 16

\* The key of _FERNET, and a key that is not the key of _FERNET.
FernetKey == "K"
OtherKey == "J"
\* The initialisation vectors Fernet.encrypt draws from.
IVs == {"x"}

Filler(n) == [i \in 1..n |-> "A"]

\* A token under `key`: magic, header naming the key and the IV, ciphertext.
Token(key, iv, plain) == Magic \o <<key, iv>> \o Filler(HeaderLen - 2) \o plain

\* _encrypt_secret, with the IV that Fernet draws
_encrypt_secret(plain, iv) == Token(FernetKey, iv, plain)

\* _looks_encrypted
_looks_encrypted(value) == StartsWith(value, Magic) /\ Len(value) > MinTokenLen

\* Fernet.decrypt succeeds on tokens made under the key of _FERNET only.
ValidToken(value) ==
    /\ Len(value) >= Len(Magic) + HeaderLen
    /\ StartsWith(value, Magic)
    /\ value[Len(Magic) + 1] = FernetKey
    /\ SubSeq(value, Len(Magic) + 3, Len(Magic) + HeaderLen) = Filler(HeaderLen - 2)

\* _decrypt_secret
_decrypt_secret(encrypted) ==
    IF encrypted = <<>> \/ ~_looks_encrypted(encrypted) THEN encrypted
    ELSE IF ValidToken(encrypted)
         THEN SubSeq(encrypted, Len(Magic) + HeaderLen + 1, Len(encrypted))
         ELSE <<>>

----------------------------------------------------------------------------
(* Key loading *)

\* Largest number of process starts of one run.
MaxStarts == 3

\* The keys that Fernet accepts: FernetKey, a key set in the environment, and
\* the keys that Fernet.generate_key may draw.
EnvKey == "E"
KeyPool == {"G", "H"}
ValidKeys == {<<c>> : c \in {FernetKey, EnvKey} \cup KeyPool}

\* Fernet(key) raised: the module is not imported and the process is not up.
NoKey == <<>>

NoKeyFile == [exists |-> FALSE, text |-> <<>>]
KeyFileOf(text) == [exists |-> TRUE, text |-> text]

\* A loader that draws a new key whenever no key is configured.
LoadRegenerates(env, kf, fresh) ==
    IF Strip(env) # <<>> THEN [key |-> Strip(env), keyFile |-> kf]
    ELSE [key |-> fresh, keyFile |-> KeyFileOf(fresh)]

\* _load_fernet up to the key it hands to Fernet: the key, and the key file it
\* leaves.  `fresh` is what Fernet.generate_key() would draw.
_load_fernet(env, kf, fresh) ==
    IF Strip(env) # <<>> THEN [key |-> Strip(env), keyFile |-> kf]
    ELSE IF kf.exists THEN [key |-> Strip(kf.text), keyFile |-> kf]
    ELSE [key |-> fresh, keyFile |-> KeyFileOf(fresh)]

\* Fernet(key.encode("utf-8")): the key of the process, if Fernet accepts it.
Fernet(key) == IF key \in ValidKeys THEN key ELSE NoKey

\* The process that serves the requests runs with FernetKey from its key file.
KeyLoaded ==
    /\ environ = <<>>
    /\ keyFile = KeyFileOf(<<FernetKey>>)
    /\ fernet = << <<FernetKey>> >>

----------------------------------------------------------------------------
(* Tenant store *)

\* The test of line 57: a non-empty string that does not look encrypted.
NeedsMigration(t) ==
    /\ "clientSecret" \in DOMAIN t
    /\ t["clientSecret"] # <<>>
    /\ ~_looks_encrypted(t["clientSecret"])

\* The loop body without the test of _looks_encrypted.
MigrateAll(t, iv) ==
    IF "clientSecret" \in DOMAIN t /\ t["clientSecret"] # <<>>
    THEN Update(t, [clientSecret |-> _encrypt_secret(t["clientSecret"], iv)])
    ELSE t

\* The loop body of lines 56-59.
Migrate(t, iv) ==
    IF NeedsMigration(t)
    THEN Update(t, [clientSecret |-> _encrypt_secret(t["clientSecret"], iv)])
    ELSE t

\* _read_tenants without the write of line 61.
ReadNoRewrite(f, iv) ==
    IF ~f.exists THEN [tenants |-> <<>>, file |-> f, changed |-> FALSE]
    ELSE [tenants |-> [i \in 1..Len(f.data) |-> Migrate(f.data[i], iv)],
          file |-> f, changed |-> FALSE]

\* The body of _read_tenants under the lock: the list it returns, the file it
\* leaves and whether it rewrote the file.
_read_tenants(f, iv) ==
    IF ~f.exists THEN [tenants |-> <<>>, file |-> f, changed |-> FALSE]
    ELSE LET migrated == [i \in 1..Len(f.data) |-> Migrate(f.data[i], iv)]
             changed == \E i \in 1..Len(f.data) : NeedsMigration(f.data[i])
         IN  [tenants |-> migrated,
              file |-> IF changed THEN [exists |-> TRUE, data |-> migrated] ELSE f,
              changed |-> changed]

\* The body of _write_tenants under the lock.
_write_tenants(list) == [exists |-> TRUE, data |-> list]

\* bool(x) of a string or of None (None is the default <<>> of Get)
Truthy(s) == s # <<>>

\* The redaction without the pop of "clientSecret".
RedactLeak(t, hasSecret) == Update(t, [hasSecret |-> hasSecret])

\* dict(t) without "clientSecret", with the hasSecret flag
Redact(t, hasSecret) == Update(Pop(t, "clientSecret"), [hasSecret |-> hasSecret])

Matches(list, id) == {i \in 1..Len(list) : Get(list[i], "id", NoId) = id}

\* Index of the first record of the list with this id (0: there is none).
FirstMatch(list, id) ==
    IF Matches(list, id) = {} THEN 0
    ELSE CHOOSE i \in Matches(list, id) : \A j \in Matches(list, id) : i <= j

Required == {"name", "tenantId", "clientId", "clientSecret"}

\* The check without the strip(): a blank value passes.
ValidCreateUntrimmed(payload) ==
    \A k \in Required : k \in DOMAIN payload /\ payload[k] # <<>>

\* The check of line 131.
ValidCreate(payload) ==
    \A k \in Required : k \in DOMAIN payload /\ Strip(payload[k]) # <<>>

\* new_item of create_tenant
NewItem(payload, id, iv) ==
    [id |-> id,
     name |-> Strip(payload["name"]),
     tenantId |-> Strip(payload["tenantId"]),
     clientId |-> Strip(payload["clientId"]),
     clientSecret |-> _encrypt_secret(Strip(payload["clientSecret"]), iv),
     isActive |-> Get(payload, "isActive", TRUE),
     lastSync |-> Get(payload, "lastSync", <<>>),
     userCount |-> Get(payload, "userCount", 0),
     licenseCount |-> Get(payload, "licenseCount", 0)]

\* The record of update_tenant after lines 165-176.
Merged(t, payload, iv) ==
    LET base == Update(t,
            [name |-> Strip(Get(payload, "name", Get(t, "name", <<>>))),
             tenantId |-> Strip(Get(payload, "tenantId", Get(t, "tenantId", <<>>))),
             clientId |-> Strip(Get(payload, "clientId", Get(t, "clientId", <<>>))),
             isActive |-> Get(payload, "isActive", Get(t, "isActive", TRUE)),
             lastSync |-> Get(payload, "lastSync", Get(t, "lastSync", <<>>)),
             userCount |-> Get(payload, "userCount", Get(t, "userCount", 0)),
             licenseCount |-> Get(payload, "licenseCount", Get(t, "licenseCount", 0))])
    IN  IF "clientSecret" \in DOMAIN payload /\ Strip(payload["clientSecret"]) # <<>>
        THEN Update(base,
                [clientSecret |-> _encrypt_secret(Strip(payload["clientSecret"]), iv)])
        ELSE base

\* A filter that drops the first record when no record has the id.
WithoutOrFirst(list, id) ==
    IF \E i \in 1..Len(list) : Get(list[i], "id", NoId) = id
    THEN SelectSeq(list, LAMBDA t : Get(t, "id", NoId) # id)
    ELSE IF list = <<>> THEN list ELSE Tail(list)

\* new_list of delete_tenant
Without(list, id) == SelectSeq(list, LAMBDA t : Get(t, "id", NoId) # id)

----------------------------------------------------------------------------
(* Credential resolver and aggregation pipeline *)

Eligible(list, id) ==
    {i \in 1..Len(list) :
        Get(list[i], "id", NoId) = id /\ Get(list[i], "isActive", FALSE)}

\* The resolver without the test of isActive.
CredentialsAnyState(list, id) ==
    IF Matches(list, id) = {} THEN << <<>>, <<>>, <<>> >>
    ELSE LET t == list[FirstMatch(list, id)]
         IN  <<Get(t, "tenantId", <<>>), Get(t, "clientId", <<>>),
               _decrypt_secret(Get(t, "clientSecret", <<>>))>>

\* _get_tenant_credentials, on the list that _read_tenants returned
_get_tenant_credentials(list, id) ==
    IF Eligible(list, id) = {} THEN << <<>>, <<>>, <<>> >>
    ELSE LET i == CHOOSE i \in Eligible(list, id) : \A j \in Eligible(list, id) : i <= j
             t == list[i]
         IN  <<Get(t, "tenantId", <<>>), Get(t, "clientId", <<>>),
               _decrypt_secret(Get(t, "clientSecret", <<>>))>>

\* all([tenant_id_val, client_id, client_secret])
AllSet(creds) == \A i \in 1..3 : Truthy(creds[i])

Resources == {"users", "licenses", "groups", "sites"}

\* A future of the executor: not finished, or finished with what fetch_* returned
\* (raised: the request inside fetch_* raised and the except clause answered).
Pending == [done |-> FALSE]
Fetched(answer) == [done |-> TRUE, raised |-> FALSE, data |-> answer]
\* An except clause that answers with the error instead of the empty collection.
FailedLoud == [done |-> TRUE, raised |-> TRUE, data |-> [value |-> <<[error |-> "e"]>>]]
FailedSoft == [done |-> TRUE, raised |-> TRUE, data |-> [value |-> <<>>]]
\* requests.get was called without a timeout and the server never answers: the
\* call does not return and the future never finishes.
Hung == [done |-> FALSE, hung |-> TRUE]

\* A test that counts a user without the field as disabled.
AccountEnabledStrict(u) == Get(u, "accountEnabled", FALSE)

\* u.get('accountEnabled', True)
AccountEnabled(u) == Get(u, "accountEnabled", TRUE)

\* A reading that counts a SKU without prepaid units as one unit.
EnabledOrOne(lic) == Get(Get(lic, "prepaidUnits", [enabled |-> 1]), "enabled", 1)

\* lic.get('prepaidUnits', {}).get('enabled', 0)
Enabled(lic) == Get(Get(lic, "prepaidUnits", <<>>), "enabled", 0)
\* lic.get('consumedUnits', 0)
Consumed(lic) == Get(lic, "consumedUnits", 0)

RECURSIVE SumEnabled(_)
SumEnabled(list) ==
    IF list = <<>> THEN 0 ELSE Enabled(Head(list)) + SumEnabled(Tail(list))

RECURSIVE SumConsumed(_)
SumConsumed(list) ==
    IF list = <<>> THEN 0 ELSE Consumed(Head(list)) + SumConsumed(Tail(list))

\* payload of _collect_tenant_data, lines 293-328
Payload(fetch) ==
    LET users == Get(fetch["users"].data, "value", <<>>)
        licenses == Get(fetch["licenses"].data, "value", <<>>)
        groups == Get(fetch["groups"].data, "value", <<>>)
        sites == Get(fetch["sites"].data, "value", <<>>)
        total_users == Len(users)
        active_users ==
            Cardinality({i \in 1..Len(users) : AccountEnabled(users[i])})
        disabled_users == total_users - active_users
        total_licenses == SumEnabled(licenses)
        used_licenses == SumConsumed(licenses)
        available_licenses == total_licenses - used_licenses
    IN  [users |-> users, groups |-> groups, sites |-> sites, licenses |-> licenses,
         metrics |->
            [totalUsers |-> total_users,
             activeUsers |-> active_users,
             disabledUsers |-> disabled_users,
             totalLicenses |-> total_licenses,
             usedLicenses |-> used_licenses,
             availableLicenses |-> available_licenses,
             userStatus |-> [active |-> active_users, disabled |-> disabled_users],
             licenseStatus |-> [used |-> used_licenses,
                                available |-> available_licenses]]]

\* datetime.now().isoformat() at the n-th reading of the clock
IsoFormat(n) == <<"T", ToString(n)>>

\* The snapshot without the two counts.
SnapshotStampOnly(t, metrics, stamp) == Update(t, [lastSync |-> stamp])

\* The record of lines 335-337.
Snapshot(t, metrics, stamp) ==
    Update(t, [lastSync |-> stamp,
               userCount |-> metrics.totalUsers,
               licenseCount |-> metrics.totalLicenses])

----------------------------------------------------------------------------
(* Requests *)

NoRequest == [op |-> "none", id |-> NoId, payload |-> <<>>]
NoResponse == [status |-> 0, body |-> <<>>]
NoAgg == [creds |-> << <<>>, <<>>, <<>> >>,
          token |-> <<>>,
          fetch |-> [k \in Resources |-> Pending],
          payload |-> <<>>,
          status |-> 0]

\* An id source that repeats itself.
UuidRepeats(n) == 10

\* str(uuid.uuid4()) at the n-th draw: a value never drawn before
Uuid(n) == 10 + n

\* Call sites of _read_tenants and _write_tenants: the request waits for the lock.
LockSites == {"list_read", "create_read", "create_write", "update_read",
              "update_write", "delete_read", "delete_write", "creds_read",
              "snap_read", "snap_write", "sync_read"}

StoreInit(files) ==
    /\ file \in files
    /\ lock = NoOne
    /\ pc = [r \in Requests |-> "init"]
    /\ req = [r \in Requests |-> NoRequest]
    /\ tenants = [r \in Requests |-> <<>>]
    /\ item = [r \in Requests |-> <<>>]
    /\ agg = [r \in Requests |-> NoAgg]
    /\ resp = [r \in Requests |-> NoResponse]
    /\ nextId = 0
    /\ clock = 0
    /\ writes = 0

InitWith(files) == StoreInit(files) /\ KeyLoaded

\* Requests are numbered in the order of their arrival.
Arrives(r) == pc[r] = "init" /\ \A q \in Requests : q < r => pc[q] # "init"

\* The request arrives and its handler starts.
Start(r, op, ids, payloads, first) ==
    /\ Arrives(r)
    /\ \E id \in ids, payload \in payloads :
            req' = [req EXCEPT ![r] = [op |-> op, id |-> id, payload |-> payload]]
    /\ pc' = [pc EXCEPT ![r] = first]
    /\ UNCHANGED <<file, lock, tenants, item, agg, resp, nextId, clock, writes>>
    /\ UNCHANGED keyVars

\* `with _TENANTS_LOCK:` of _read_tenants and _write_tenants
Acquire(r) ==
    /\ pc[r] \in LockSites
    /\ lock = NoOne
    /\ lock' = r
    /\ UNCHANGED <<file, pc, req, tenants, item, agg, resp, nextId, clock, writes>>
    /\ UNCHANGED keyVars

\* The effect of one _read_tenants call on the file, and the release of the lock.
ReadEffect(rd) ==
    /\ file' = rd.file
    /\ writes' = IF rd.changed THEN writes + 1 ELSE writes
    /\ lock' = NoOne
    /\ UNCHANGED keyVars

\* The effect of one _write_tenants call on the file, and the release of the lock.
WriteEffect(list) ==
    /\ file' = _write_tenants(list)
    /\ writes' = writes + 1
    /\ lock' = NoOne
    /\ UNCHANGED keyVars

\* The handler goes on to its next step with these locals.
Goto(r, next, list, it, ag) ==
    /\ pc' = [pc EXCEPT ![r] = next]
    /\ tenants' = [tenants EXCEPT ![r] = list]
    /\ item' = [item EXCEPT ![r] = it]
    /\ agg' = [agg EXCEPT ![r] = ag]
    /\ UNCHANGED resp

\* The handler returns its response.  Its list is gone; item[r] and agg[r] stay
\* as they were when it returned.
Return(r, status, body) ==
    /\ resp' = [resp EXCEPT ![r] = [status |-> status, body |-> body]]
    /\ pc' = [pc EXCEPT ![r] = "done"]
    /\ tenants' = [tenants EXCEPT ![r] = <<>>]
    /\ UNCHANGED <<item, agg>>

\* _collect_tenant_data returns an error: `return payload, status` of lines 232,
\* 243 and 343 is the answer of both get_tenant_data (line 349) and
\* sync_tenant_data (line 358).
CollectFails(r, ag, status, body) ==
    /\ resp' = [resp EXCEPT ![r] = [status |-> status, body |-> body]]
    /\ pc' = [pc EXCEPT ![r] = "done"]
    /\ agg' = [agg EXCEPT ![r] = [ag EXCEPT !.status = status]]
    /\ UNCHANGED <<tenants, item>>

\* lines 118-123
RedactedList(list) ==
    [i \in 1..Len(list) |->
        Redact(list[i], Truthy(Get(list[i], "clientSecret", <<>>)))]

\* GET /api/tenants
StartList(r) == Start(r, "list", {NoId}, {<<>>}, "list_read")

ListRead(r) ==
    /\ pc[r] = "list_read" /\ lock = r
    /\ \E iv \in IVs :
        LET rd == _read_tenants(file, iv)
        IN  /\ ReadEffect(rd)
            /\ Return(r, 200, [tenants |-> RedactedList(rd.tenants)])
    /\ UNCHANGED <<req, nextId, clock>>

\* POST /api/tenants, up to the validation of line 131
StartCreate(r, payloads) ==
    /\ Arrives(r)
    /\ \E payload \in payloads :
        /\ req' = [req EXCEPT ![r] = [op |-> "create", id |-> NoId, payload |-> payload]]
        /\ IF ValidCreate(payload)
           THEN Goto(r, "create_read", <<>>, <<>>, NoAgg)
           ELSE Return(r, 400, [error |-> "Missing required fields"])
    /\ UNCHANGED <<file, lock, nextId, clock, writes>>
    /\ UNCHANGED keyVars

\* lines 134-146
CreateRead(r) ==
    /\ pc[r] = "create_read" /\ lock = r
    /\ \E iv \in IVs :
        LET rd == _read_tenants(file, iv)
            new_item == NewItem(req[r].payload, Uuid(nextId), iv)
        IN  /\ ReadEffect(rd)
            /\ Goto(r, "create_write", <<new_item>> \o rd.tenants, new_item, NoAgg)
    /\ nextId' = nextId + 1
    /\ UNCHANGED <<req, clock>>

\* lines 147-152
CreateWrite(r) ==
    /\ pc[r] = "create_write" /\ lock = r
    /\ WriteEffect(tenants[r])
    /\ Return(r, 201, Redact(item[r], TRUE))
    /\ UNCHANGED <<req, nextId, clock>>

\* PUT /api/tenants/<tenant_id>
StartUpdate(r, ids, payloads) == Start(r, "update", ids, payloads, "update_read")

\* lines 160-180
UpdateRead(r) ==
    /\ pc[r] = "update_read" /\ lock = r
    /\ \E iv \in IVs :
        LET rd == _read_tenants(file, iv)
            idx == FirstMatch(rd.tenants, req[r].id)
        IN  /\ ReadEffect(rd)
            /\ IF idx = 0
               THEN Return(r, 404, [error |-> "Tenant not found"])
               ELSE LET updated == Merged(rd.tenants[idx], req[r].payload, iv)
                    IN  Goto(r, "update_write",
                             [rd.tenants EXCEPT ![idx] = updated], updated, NoAgg)
    /\ UNCHANGED <<req, nextId, clock>>

\* lines 181-185
UpdateWrite(r) ==
    /\ pc[r] = "update_write" /\ lock = r
    /\ WriteEffect(tenants[r])
    /\ Return(r, 200, Redact(item[r], Truthy(Get(item[r], "clientSecret", <<>>))))
    /\ UNCHANGED <<req, nextId, clock>>

\* DELETE /api/tenants/<tenant_id>
StartDelete(r, ids) == Start(r, "delete", ids, {<<>>}, "delete_read")

\* lines 192-195
DeleteRead(r) ==
    /\ pc[r] = "delete_read" /\ lock = r
    /\ \E iv \in IVs :
        LET rd == _read_tenants(file, iv)
            new_list == Without(rd.tenants, req[r].id)
        IN  /\ ReadEffect(rd)
            /\ IF Len(new_list) = Len(rd.tenants)
               THEN Return(r, 404, [error |-> "Tenant not found"])
               ELSE Goto(r, "delete_write", new_list, <<>>, NoAgg)
    /\ UNCHANGED <<req, nextId, clock>>

\* lines 196-197
DeleteWrite(r) ==
    /\ pc[r] = "delete_write" /\ lock = r
    /\ WriteEffect(tenants[r])
    /\ Return(r, 200, [ok |-> TRUE])
    /\ UNCHANGED <<req, nextId, clock>>

Aggregations == {q \in Requests : req[q].op \in {"data", "sync"}}

\* GET /api/tenants/<tenant_id>/data
StartData(r, ids) ==
    /\ Cardinality(Aggregations) < MaxAggregations
    /\ Start(r, "data", ids, {<<>>}, "creds_read")

\* POST /api/tenants/<tenant_id>/sync
StartSync(r, ids) ==
    /\ Cardinality(Aggregations) < MaxAggregations
    /\ Start(r, "sync", ids, {<<>>}, "creds_read")

\* lines 229-232
CredsRead(r) ==
    /\ pc[r] = "creds_read" /\ lock = r
    /\ \E iv \in IVs :
        LET rd == _read_tenants(file, iv)
            creds == _get_tenant_credentials(rd.tenants, req[r].id)
        IN  /\ ReadEffect(rd)
            /\ IF AllSet(creds)
               THEN Goto(r, "token", <<>>, <<>>, [NoAgg EXCEPT !.creds = creds])
               ELSE CollectFails(r, [NoAgg EXCEPT !.creds = creds], 404,
                                 [error |-> "Tenant not found or missing credentials"])
    /\ UNCHANGED <<req, nextId, clock>>

\* What acquire_token_for_client returns: a dict with an access token, or a
\* dict that describes the error.
TokenResponse(outcome) ==
    IF outcome = "token" THEN [access_token |-> "t"] ELSE [error |-> "invalid_client"]

\* A test that takes every response for a token.
HasTokenAlways(response) == TRUE

\* "access_token" in token
HasToken(response) == "access_token" \in DOMAIN response

\* lines 236-245 and the four submits of lines 283-286: the token exchange
\* answers with a token, answers without one, or raises.
AcquireToken(r, outcomes) ==
    /\ pc[r] = "token"
    /\ \E outcome \in outcomes :
        IF outcome = "raises"
        THEN CollectFails(r, agg[r], 500, [error |-> "exception"])
        ELSE LET token == TokenResponse(outcome)
                 ag == [agg[r] EXCEPT !.token = token]
             IN  IF HasToken(token)
                 THEN Goto(r, "fetch", <<>>, <<>>, ag)
                 ELSE CollectFails(r, ag, 500,
                                   [error |-> "Failed to acquire token for tenant",
                                    details |-> token])
    /\ UNCHANGED <<file, lock, req, nextId, clock, writes>>
    /\ UNCHANGED keyVars

\* One of fetch_users .. fetch_sites finishes in its worker thread.
Fetch(r, k, outcomes) ==
    /\ pc[r] = "fetch"
    /\ agg[r].fetch[k] = Pending
    /\ \E outcome \in outcomes : agg' = [agg EXCEPT ![r].fetch[k] = outcome]
    /\ UNCHANGED <<file, lock, pc, req, tenants, item, resp, nextId, clock, writes>>
    /\ UNCHANGED keyVars

fetch_users(r, outcomes) == Fetch(r, "users", outcomes)
fetch_licenses(r, outcomes) == Fetch(r, "licenses", outcomes)
fetch_groups(r, outcomes) == Fetch(r, "groups", outcomes)
fetch_sites(r, outcomes) == Fetch(r, "sites", outcomes)

\* A join that waits for the users alone and takes the rest as empty.
JoinEarly(r) ==
    /\ pc[r] = "fetch"
    /\ agg[r].fetch["users"].done
    /\ Goto(r, "snap_read", <<>>, <<>>,
            [agg[r] EXCEPT !.payload =
                Payload([k \in Resources |->
                            IF agg[r].fetch[k].done THEN agg[r].fetch[k]
                            ELSE FailedSoft])])
    /\ UNCHANGED <<file, lock, req, nextId, clock, writes>>
    /\ UNCHANGED keyVars

\* lines 288-328: the four result() calls have returned
Join(r) ==
    /\ pc[r] = "fetch"
    /\ \A k \in Resources : agg[r].fetch[k].done
    /\ Goto(r, "snap_read", <<>>, <<>>,
            [agg[r] EXCEPT !.payload = Payload(agg[r].fetch)])
    /\ UNCHANGED <<file, lock, req, nextId, clock, writes>>
    /\ UNCHANGED keyVars

\* lines 331-338
SnapRead(r) ==
    /\ pc[r] = "snap_read" /\ lock = r
    /\ \E iv \in IVs :
        LET rd == _read_tenants(file, iv)
            idx == FirstMatch(rd.tenants, req[r].id)
        IN  /\ ReadEffect(rd)
            /\ IF idx = 0
               THEN /\ Goto(r, "snap_write", rd.tenants, <<>>, agg[r])
                    /\ UNCHANGED clock
               ELSE LET t == Snapshot(rd.tenants[idx], agg[r].payload.metrics,
                                      IsoFormat(clock + 1))
                    IN  /\ Goto(r, "snap_write",
                                [rd.tenants EXCEPT ![idx] = t], t, agg[r])
                        /\ clock' = clock + 1
    /\ UNCHANGED <<req, nextId>>

\* lines 339-341, and the return of get_tenant_data (line 349) or the way of
\* sync_tenant_data to its own read (line 357)
SnapWrite(r) ==
    /\ pc[r] = "snap_write" /\ lock = r
    /\ WriteEffect(tenants[r])
    /\ resp' = [resp EXCEPT ![r] = IF req[r].op = "data"
                                   THEN [status |-> 200, body |-> agg[r].payload]
                                   ELSE resp[r]]
    /\ pc' = [pc EXCEPT ![r] = IF req[r].op = "data" THEN "done" ELSE "sync_read"]
    /\ tenants' = [tenants EXCEPT ![r] = <<>>]
    /\ agg' = [agg EXCEPT ![r].status = 200]
    /\ UNCHANGED <<req, item, nextId, clock>>

\* lines 361-376
SyncRead(r) ==
    /\ pc[r] = "sync_read" /\ lock = r
    /\ \E iv \in IVs :
        LET rd == _read_tenants(file, iv)
            idx == FirstMatch(rd.tenants, req[r].id)
        IN  /\ ReadEffect(rd)
            /\ IF idx = 0
               THEN Return(r, 404, [error |-> "Tenant not found"])
               ELSE Return(r, 200,
                           Redact(rd.tenants[idx],
                                  Truthy(Get(rd.tenants[idx], "clientSecret", <<>>))))
    /\ UNCHANGED <<req, nextId, clock>>

----------------------------------------------------------------------------
(* Inputs *)

Rec(id, secret, active) ==
    [id |-> id, name |-> <<"n">>, tenantId |-> <<"d">>, clientId |-> <<"c">>,
     clientSecret |-> secret, isActive |-> active, lastSync |-> <<>>,
     userCount |-> 0, licenseCount |-> 0]

\* A secret written before secrets were encrypted.
Legacy == <<"s">>
\* A secret encrypted under the key of _FERNET, and one under another key.
Sealed == Token(FernetKey, "x", <<"p">>)
Foreign == Token(OtherKey, "x", <<"q">>)

Store(list) == [exists |-> TRUE, data |-> list]
NoFile == [exists |-> FALSE, data |-> <<>>]

Files == {NoFile, Store(<<Rec(1, Sealed, TRUE), Rec(2, Legacy, FALSE)>>)}

Ids == {0, 1}

Good == [name |-> <<"m">>, tenantId |-> <<"e">>, clientId |-> <<"c">>,
         clientSecret |-> <<" ", "t">>]

CreatePayloads == {Good, Update(Good, [name |-> <<" ">>])}

UpdatePayloads == {<<>>, [clientSecret |-> <<"u">>, name |-> <<" ", "k">>]}

TokenOutcomes == {"token", "no_token", "raises"}

Users == <<[accountEnabled |-> TRUE], [accountEnabled |-> FALSE]>>
Licenses == <<[prepaidUnits |-> [enabled |-> 5], consumedUnits |-> 3]>>

Upstream ==
    [users |-> {Fetched([value |-> Users])},
     licenses |-> {Fetched([value |-> Licenses])},
     groups |-> {FailedSoft},
     sites |-> {Fetched([value |-> <<>>])}]

Init == InitWith(Files)

\* A secret that looks encrypted and is no token.
Garbage == Magic \o [i \in 1..HeaderLen |-> "z"]

AggFiles ==
    {NoFile,
     Store(<<Rec(1, Sealed, TRUE), Rec(2, Legacy, FALSE)>>),
     Store(<<Rec(1, Foreign, TRUE), Rec(2, Legacy, TRUE)>>),
     Store(<<Update(Rec(1, Sealed, TRUE), [tenantId |-> <<>>]), Rec(2, Garbage, TRUE)>>)}

AggIds == {0, 1, 2}

ListsUpTo(S, n) == UNION {[1..k -> S] : k \in 0..n}

\* A 2xx answer of the upstream API: a collection under "value", or none.
Answers(S) ==
    {[value |-> list] : list \in ListsUpTo(S, MaxItems)} \cup {[context |-> "c"]}

UserObjects ==
    {[accountEnabled |-> TRUE], [accountEnabled |-> FALSE], [displayName |-> "u"]}

LicenseObjects ==
    {[prepaidUnits |-> [enabled |-> 2], consumedUnits |-> 1],
     [consumedUnits |-> 3],
     [prepaidUnits |-> [suspended |-> 1]]}

Outcomes(answers) == {Fetched(a) : a \in answers} \cup {FailedSoft}

RichUpstream ==
    [users |-> Outcomes(Answers(UserObjects)),
     licenses |-> Outcomes(Answers(LicenseObjects)),
     groups |-> Outcomes({[value |-> <<[id |-> "g"]>>]}),
     sites |-> Outcomes({[value |-> <<[id |-> "s"]>>]})]

InitAgg == InitWith(AggFiles)

Next ==
    \E r \in Requests :
        \/ Acquire(r)
        \/ StartList(r)
        \/ ListRead(r)
        \/ StartCreate(r, CreatePayloads)
        \/ CreateRead(r)
        \/ CreateWrite(r)
        \/ StartUpdate(r, Ids, UpdatePayloads)
        \/ UpdateRead(r)
        \/ UpdateWrite(r)
        \/ StartDelete(r, Ids)
        \/ DeleteRead(r)
        \/ DeleteWrite(r)
        \/ StartData(r, Ids)
        \/ StartSync(r, Ids)
        \/ CredsRead(r)
        \/ AcquireToken(r, TokenOutcomes)
        \/ fetch_users(r, Upstream["users"])
        \/ fetch_licenses(r, Upstream["licenses"])
        \/ fetch_groups(r, Upstream["groups"])
        \/ fetch_sites(r, Upstream["sites"])
        \/ Join(r)
        \/ SnapRead(r)
        \/ SnapWrite(r)
        \/ SyncRead(r)

Spec == Init /\ [][Next]_vars

\* One aggregation on its own, with every upstream answer.
NextAgg ==
    \E r \in {q \in Requests : \A p \in Requests : q <= p} :
        \/ Acquire(r)
        \/ StartData(r, AggIds)
        \/ StartSync(r, AggIds)
        \/ CredsRead(r)
        \/ AcquireToken(r, TokenOutcomes)
        \/ fetch_users(r, RichUpstream["users"])
        \/ fetch_licenses(r, RichUpstream["licenses"])
        \/ fetch_groups(r, RichUpstream["groups"])
        \/ fetch_sites(r, RichUpstream["sites"])
        \/ Join(r)
        \/ SnapRead(r)
        \/ SnapWrite(r)
        \/ SyncRead(r)

SpecAgg == InitAgg /\ [][NextAgg]_vars

\* An upstream that answers, fails, or never answers.
SilentUpstream == [k \in Resources |-> Upstream[k] \cup {FailedSoft, Hung}]

\* One aggregation on its own, on an upstream that may never answer.
NextLive ==
    \E r \in {q \in Requests : \A p \in Requests : q <= p} :
        \/ Acquire(r)
        \/ StartData(r, AggIds)
        \/ StartSync(r, AggIds)
        \/ CredsRead(r)
        \/ AcquireToken(r, TokenOutcomes)
        \/ fetch_users(r, SilentUpstream["users"])
        \/ fetch_licenses(r, SilentUpstream["licenses"])
        \/ fetch_groups(r, SilentUpstream["groups"])
        \/ fetch_sites(r, SilentUpstream["sites"])
        \/ Join(r)
        \/ SnapRead(r)
        \/ SnapWrite(r)
        \/ SyncRead(r)

\* The request thread and the four workers of the executor are scheduled: a
\* step that stays possible is taken.
SpecLive == InitAgg /\ [][NextLive]_vars /\ WF_vars(NextLive)

\* TENANT_SECRET_KEY of a process: not set, blank, a key padded with a blank,
\* or something that Fernet does not accept.
Environs == {<<>>, <<" ">>, <<" ", EnvKey>>, <<"!">>}

\* tenant_key.key before the first start: absent, blank, or an earlier key
\* followed by a blank.
KeyFiles == {NoKeyFile, KeyFileOf(<<" ">>), KeyFileOf(<<FernetKey, " ">>)}

\* No process has started yet; the store is at rest.
InitKey ==
    /\ StoreInit({NoFile})
    /\ environ = <<>>
    /\ keyFile \in KeyFiles
    /\ fernet = <<>>

\* A process starts: the import of the module runs `_FERNET = _load_fernet()`.
ProcessStart ==
    /\ Len(fernet) < MaxStarts
    /\ \E env \in Environs, fresh \in KeyPool :
        LET loaded == _load_fernet(env, keyFile, <<fresh>>)
        IN  /\ environ' = env
            /\ keyFile' = loaded.keyFile
            /\ fernet' = Append(fernet, Fernet(loaded.key))
    /\ UNCHANGED <<file, lock, pc, req, tenants, item, agg, resp, nextId, clock, writes>>

NextKey == ProcessStart

SpecKey == InitKey /\ [][NextKey]_vars

\* Sequential runs: a request is handled while no other request is in flight.
Alone(r) == \A q \in Requests \ {r} : pc[q] \in {"init", "done"}

\* A create payload with one of the required fields left out, empty, blank,
\* or padded with blanks.
OneOff ==
    {Pop(Good, k) : k \in Required}
        \cup {Update(Good, [j \in {k} |-> v]) :
                k \in Required, v \in {<<>>, <<" ">>, <<" ", "v", " ">>}}

SeqCreatePayloads == {Good} \cup OneOff

SeqUpdatePayloads ==
    {<<>>,
     [clientSecret |-> <<>>],
     [clientSecret |-> <<" ">>],
     [clientSecret |-> <<"u">>],
     [name |-> <<"k", " ">>, isActive |-> FALSE]}

SeqIds == {0, 1, 2}

NextSeq ==
    \E r \in Requests :
        \/ Alone(r) /\ Acquire(r)
        \/ Alone(r) /\ StartList(r)
        \/ Alone(r) /\ ListRead(r)
        \/ Alone(r) /\ StartCreate(r, SeqCreatePayloads)
        \/ Alone(r) /\ CreateRead(r)
        \/ Alone(r) /\ CreateWrite(r)
        \/ Alone(r) /\ StartUpdate(r, SeqIds, SeqUpdatePayloads)
        \/ Alone(r) /\ UpdateRead(r)
        \/ Alone(r) /\ UpdateWrite(r)
        \/ Alone(r) /\ StartDelete(r, SeqIds)
        \/ Alone(r) /\ DeleteRead(r)
        \/ Alone(r) /\ DeleteWrite(r)
        \/ Alone(r) /\ StartSync(r, Ids)
        \/ Alone(r) /\ CredsRead(r)
        \/ Alone(r) /\ AcquireToken(r, TokenOutcomes)
        \/ Alone(r) /\ fetch_users(r, Upstream["users"])
        \/ Alone(r) /\ fetch_licenses(r, Upstream["licenses"])
        \/ Alone(r) /\ fetch_groups(r, Upstream["groups"])
        \/ Alone(r) /\ fetch_sites(r, Upstream["sites"])
        \/ Alone(r) /\ Join(r)
        \/ Alone(r) /\ SnapRead(r)
        \/ Alone(r) /\ SnapWrite(r)
        \/ Alone(r) /\ SyncRead(r)

SpecSeq == Init /\ [][NextSeq]_vars

----------------------------------------------------------------------------
(* Claims *)

WriteSites == {"create_write", "update_write", "delete_write", "snap_write"}
ReadSites == LockSites \ WriteSites

Done(r) == pc[r] = "done"
Secret(t) == Get(t, "clientSecret", <<>>)
IdsOf(list) == {Get(list[i], "id", NoId) : i \in 1..Len(list)}

\* The envelope form of section 4.1: the magic prefix and the minimum length.
EnvelopeForm(value) == StartsWith(value, Magic) /\ Len(value) > MinTokenLen
Plaintext(t) == Secret(t) # <<>> /\ ~EnvelopeForm(Secret(t))
AllEncrypted(list) == \A i \in 1..Len(list) : ~Plaintext(list[i])

\* Request r is inside _read_tenants and leaves it with this step.
ReadStep(r) == pc[r] \in ReadSites /\ lock = r /\ lock' = NoOne
\* Request r is inside _write_tenants and leaves it with this step.
WriteStep(r) == pc[r] \in WriteSites /\ lock = r /\ lock' = NoOne
\* The handler of request r returns with this step.
Returns(r) == pc[r] # "done" /\ pc'[r] = "done"

Created(r) == Done(r) /\ req[r].op = "create" /\ resp[r].status = 201

\* C1: once every request of a run of creates has returned 201, the store holds
\* one record for each of them, and their ids are pairwise distinct.
C1_NoCreateIsLost ==
    (\A r \in Requests : Created(r)) =>
        /\ \A r \in Requests : resp[r].body.id \in IdsOf(file.data)
        /\ \A r, q \in Requests : r # q => resp[r].body.id # resp[q].body.id

\* C2: between the read and the write of one read-modify-write cycle no other
\* request is inside _read_tenants or _write_tenants.
C2_CycleIsExclusive ==
    \A r \in Requests : pc[r] \in WriteSites => lock \in {NoOne, r}

\* Request r has come back from a call of _read_tenants.
HasRead(r) ==
    \/ pc[r] \in WriteSites \cup {"token", "fetch", "snap_read", "sync_read"}
    \/ Done(r) /\ ~(req[r].op = "create" /\ resp[r].status = 400)

\* C3: once a read of the store has completed, every non-empty clientSecret of
\* the persisted store is in envelope form, and so is every secret of a list
\* that a read returned to its handler.
C3_SecretsEncrypted ==
    /\ (\E r \in Requests : HasRead(r)) => AllEncrypted(file.data)
    /\ \A r \in Requests : AllEncrypted(tenants[r])

C3_Witness ==
    /\ \A r \in Requests : Done(r)
    /\ \E r \in Requests : req[r].op = "update" /\ resp[r].status = 200
    /\ \E r \in Requests : req[r].op = "sync" /\ resp[r].status = 200
    /\ \E i \in 1..Len(file.data) :
            EnvelopeForm(Secret(file.data[i])) /\ _decrypt_secret(Secret(file.data[i])) = Legacy

\* C4: a read re-encrypts the plaintext secrets of the file and only them, each
\* to a token that decrypts to the plaintext it replaces; it rewrites the file
\* once if it found a plaintext secret and not at all otherwise, and it leaves a
\* file in which a further read finds nothing to migrate.
C4_MigrationIdempotent ==
    [][\A r \in Requests : ReadStep(r) =>
        LET old == file.data
            new == file'.data
        IN  /\ file'.exists = file.exists
            /\ Len(new) = Len(old)
            /\ \A i \in 1..Len(old) :
                IF Plaintext(old[i])
                THEN /\ Pop(new[i], "clientSecret") = Pop(old[i], "clientSecret")
                     /\ EnvelopeForm(Secret(new[i]))
                     /\ _decrypt_secret(Secret(new[i])) = Secret(old[i])
                ELSE new[i] = old[i]
            /\ writes' = IF \E i \in 1..Len(old) : Plaintext(old[i])
                         THEN writes + 1 ELSE writes
            /\ AllEncrypted(new)
            /\ \A iv \in IVs : ~_read_tenants(file', iv).changed]_vars

\* Two reads of the store of one sealed and one legacy secret: one rewrite.
C4_Witness ==
    /\ \A r \in Requests : Done(r) /\ req[r].op = "list"
    /\ writes = 1
    /\ Len(file.data) = 2
    /\ Secret(file.data[1]) = Sealed
    /\ _decrypt_secret(Secret(file.data[1])) = <<"p">>
    /\ Secret(file.data[2]) # Legacy
    /\ _decrypt_secret(Secret(file.data[2])) = Legacy

\* x is the stored record t without its secret, with the hasSecret flag.
IsRedactionOf(x, t) ==
    /\ DOMAIN x = (DOMAIN t \ {"clientSecret"}) \cup {"hasSecret"}
    /\ \A k \in DOMAIN t \ {"clientSecret"} : x[k] = t[k]
    /\ x["hasSecret"] = (Secret(t) # <<>>)

CarriesSecret(r) ==
    IF req[r].op = "list"
    THEN \E i \in 1..Len(resp[r].body.tenants) :
            "clientSecret" \in DOMAIN resp[r].body.tenants[i]
    ELSE "clientSecret" \in DOMAIN resp[r].body

\* C5: no response carries a clientSecret, and every record that list, create,
\* update or sync returns is the record of the persisted store at that moment
\* without its secret, with hasSecret true exactly when that secret is non-empty.
C5_ResponsesRedacted ==
    /\ [](\A r \in Requests : Done(r) => ~CarriesSecret(r))
    /\ [][\A r \in Requests : Returns(r) =>
            LET body == resp'[r].body
                status == resp'[r].status
                stored == file'.data
                at == FirstMatch(stored, req[r].id)
            IN  CASE req[r].op = "list" ->
                        /\ Len(body.tenants) = Len(stored)
                        /\ \A i \in 1..Len(stored) :
                                IsRedactionOf(body.tenants[i], stored[i])
                  [] req[r].op = "create" /\ status = 201 ->
                        IsRedactionOf(body, stored[1])
                  [] req[r].op \in {"update", "sync"} /\ status = 200 ->
                        at # 0 /\ IsRedactionOf(body, stored[at])
                  [] OTHER -> TRUE]_vars

C5_Witness ==
    /\ \E r \in Requests :
            /\ Done(r) /\ req[r].op = "list"
            /\ \E i \in 1..Len(resp[r].body.tenants) : resp[r].body.tenants[i]["hasSecret"]
    /\ \E r \in Requests :
            Done(r) /\ req[r].op \in {"create", "update", "sync"}
                    /\ resp[r].status \in {200, 201}

Aggregates(r) == req[r].op \in {"data", "sync"}

\* The list holds an active record with this id whose directory id and client
\* id are non-empty and whose secret is a plaintext or a token of the key.
Usable(list, id) ==
    \E i \in 1..Len(list) :
        /\ Get(list[i], "id", NoId) = id
        /\ Get(list[i], "isActive", FALSE)
        /\ Get(list[i], "tenantId", <<>>) # <<>>
        /\ Get(list[i], "clientId", <<>>) # <<>>
        /\ Secret(list[i]) # <<>>
        /\ (EnvelopeForm(Secret(list[i])) => ValidToken(Secret(list[i])))

Empty3 == << <<>>, <<>>, <<>> >>

\* C6: the triplet is usable (all three non-empty) only for an active record
\* with this id whose three credentials are non-empty after decryption; for an
\* inactive or unknown id it is the all-empty triplet; and whenever a field of
\* it is empty the aggregation answers 404.
C6_ResolutionGate ==
    \A r \in Requests : (Aggregates(r) /\ pc[r] # "creds_read") =>
        LET creds == agg[r].creds
            active == {i \in 1..Len(file.data) :
                          /\ Get(file.data[i], "id", NoId) = req[r].id
                          /\ Get(file.data[i], "isActive", FALSE)}
        IN  /\ AllSet(creds) <=> Usable(file.data, req[r].id)
            /\ AllSet(creds) =>
                    \E i \in active :
                        creds = <<file.data[i]["tenantId"], file.data[i]["clientId"],
                                  _decrypt_secret(Secret(file.data[i]))>>
            /\ active = {} => creds = Empty3
            /\ ~AllSet(creds) => Done(r) /\ resp[r].status = 404 /\ agg[r].status = 404
            /\ AllSet(creds) => agg[r].status # 404

\* An active record whose secret cannot be decrypted: 404.
C6_Witness ==
    \E r \in Requests :
        /\ Done(r) /\ Aggregates(r) /\ resp[r].status = 404
        /\ \E i \in 1..Len(file.data) :
            /\ file.data[i]["id"] = req[r].id
            /\ file.data[i]["isActive"]
            /\ Secret(file.data[i]) = Foreign
        /\ agg[r].creds = << <<"d">>, <<"c">>, <<>> >>

\* _collect_tenant_data of request r has come past its four result() calls.
Joined(r) ==
    \/ pc[r] \in {"snap_read", "snap_write", "sync_read"}
    \/ Done(r) /\ \A k \in Resources : agg[r].fetch[k].done

\* C7: once the token is acquired the aggregation returns 200 whichever fetches
\* fail; the collection of a failed fetch is empty and the collection of every
\* other fetch is the one its answer carries.
C7_FetchFailuresIsolated ==
    \A r \in Requests :
        /\ Joined(r) =>
            \A k \in Resources :
                agg[r].payload[k] = IF agg[r].fetch[k].raised THEN <<>>
                                    ELSE Get(agg[r].fetch[k].data, "value", <<>>)
        /\ (Done(r) /\ \E k \in Resources : agg[r].fetch[k].done) =>
                /\ agg[r].status = 200
                /\ \A k \in Resources : agg[r].fetch[k].done
        /\ (Done(r) /\ req[r].op = "data" /\ agg[r].status = 200) =>
                resp[r].status = 200 /\ resp[r].body = agg[r].payload

C7_Witness ==
    \E r \in Requests :
        /\ Done(r) /\ req[r].op = "data" /\ resp[r].status = 200
        /\ agg[r].fetch["users"].raised /\ resp[r].body.users = <<>>
        /\ ~agg[r].fetch["licenses"].raised /\ Len(resp[r].body.licenses) = 2
        /\ ~agg[r].fetch["groups"].raised /\ resp[r].body.groups # <<>>
        /\ agg[r].fetch["sites"].raised /\ resp[r].body.sites = <<>>

\* The write of the snapshot step of request r.
SnapshotWrite(r) == pc[r] = "snap_write" /\ WriteStep(r)

\* C8: the snapshot write changes lastSync, userCount and licenseCount of the
\* record with the given id and nothing else of the store as it was right
\* before the write.
C8_SnapshotFrame ==
    [][\A r \in Requests : SnapshotWrite(r) =>
        LET old == file.data
            new == file'.data
        IN  /\ Len(new) = Len(old)
            /\ \A i \in 1..Len(old) :
                IF Get(old[i], "id", NoId) = req[r].id
                THEN /\ Pop(Pop(Pop(new[i], "lastSync"), "userCount"), "licenseCount")
                        = Pop(Pop(Pop(old[i], "lastSync"), "userCount"), "licenseCount")
                     /\ new[i]["userCount"] = agg[r].payload.metrics.totalUsers
                     /\ new[i]["licenseCount"] = agg[r].payload.metrics.totalLicenses
                ELSE new[i] = old[i]]_vars

\* C9: when the tenant is gone from the store at the snapshot write (deleted
\* since the credentials were resolved), the write leaves the store's contents
\* as they were and the aggregation returns 200.
C9_DeletedTenantNoOp ==
    [][\A r \in Requests :
        (SnapshotWrite(r) /\ req[r].id \notin IdsOf(file.data)) =>
            /\ file'.data = file.data
            /\ agg'[r].status = 200]_vars

SyncDone(r) == Done(r) /\ req[r].op = "sync"

\* C10, as claimed: when the aggregation of sync succeeded, sync returns the
\* redacted record with the lastSync, userCount and licenseCount that the
\* snapshot step wrote; when it failed, the aggregation's error and status.
C10_SyncReturnsSnapshot ==
    \A r \in Requests : SyncDone(r) =>
        IF agg[r].status = 200
        THEN /\ resp[r].status = 200
             /\ DOMAIN item[r] # {}
             /\ "hasSecret" \in DOMAIN resp[r].body
             /\ resp[r].body["lastSync"] = item[r]["lastSync"]
             /\ resp[r].body["userCount"] = agg[r].payload.metrics.totalUsers
             /\ resp[r].body["licenseCount"] = agg[r].payload.metrics.totalLicenses
        ELSE resp[r].status = agg[r].status /\ "error" \in DOMAIN resp[r].body

\* C10, amended: when the aggregation of sync succeeded, sync reads the store
\* again and returns the redacted record with this id as the store holds it
\* then (with the values of the snapshot step if the record is still the one
\* that step wrote), or 404 if the store holds none; when the aggregation
\* failed, sync returns its error and status.
C10_SyncReturnsStored ==
    /\ [](\A r \in Requests : (SyncDone(r) /\ agg[r].status # 200) =>
            resp[r].status = agg[r].status /\ "error" \in DOMAIN resp[r].body)
    /\ [][\A r \in Requests : (Returns(r) /\ req[r].op = "sync" /\ agg[r].status = 200) =>
            LET stored == file'.data
                at == FirstMatch(stored, req[r].id)
                body == resp'[r].body
            IN  IF at = 0
                THEN resp'[r].status = 404 /\ "error" \in DOMAIN body
                ELSE /\ resp'[r].status = 200
                     /\ IsRedactionOf(body, stored[at])
                     /\ stored[at] = item[r] =>
                            /\ body["lastSync"] = item[r]["lastSync"]
                            /\ \E n \in 1..clock : body["lastSync"] = IsoFormat(n)
                            /\ body["userCount"] = agg[r].payload.metrics.totalUsers
                            /\ body["licenseCount"] =
                                    agg[r].payload.metrics.totalLicenses]_vars

C10_Witness ==
    \E r \in Requests :
        /\ SyncDone(r) /\ agg[r].status = 200 /\ resp[r].status = 200
        /\ resp[r].body["lastSync"] = item[r]["lastSync"]
        /\ resp[r].body["userCount"] = 2
        /\ resp[r].body["licenseCount"] = 5
        /\ resp[r].body["hasSecret"]

\* The write of update_tenant of request r.
UpdateStep(r) == pc[r] = "update_write" /\ WriteStep(r)

\* The payload of request r brings no new secret: none, or a blank one.
NoNewSecret(r) ==
    "clientSecret" \notin DOMAIN req[r].payload
        \/ Strip(req[r].payload["clientSecret"]) = <<>>

\* C11: the write of an update with an empty payload leaves the store's list as
\* it was right before the write, and the write of an update that brings no
\* new secret leaves the secret of its record as it was.
C11_EmptyUpdateFrame ==
    [][\A r \in Requests : UpdateStep(r) =>
        LET old == file.data
            new == file'.data
            at == FirstMatch(new, req[r].id)
        IN  /\ req[r].payload = <<>> => new = old
            /\ NoNewSecret(r) =>
                    /\ FirstMatch(old, req[r].id) = at
                    /\ Secret(new[at]) = Secret(old[at])]_vars

\* C11 in a run without other requests in flight.
C11_EmptyUpdateFrameAlone ==
    [][\A r \in Requests : (UpdateStep(r) /\ Alone(r)) =>
        LET old == file.data
            new == file'.data
            at == FirstMatch(new, req[r].id)
        IN  /\ req[r].payload = <<>> => new = old
            /\ NoNewSecret(r) =>
                    /\ FirstMatch(old, req[r].id) = at
                    /\ Secret(new[at]) = Secret(old[at])
                    /\ EnvelopeForm(Secret(new[at]))]_vars

\* The read of delete_tenant of request r, for an id that no record carries.
DeleteUnknown(r) ==
    pc[r] = "delete_read" /\ ReadStep(r) /\ req[r].id \notin IdsOf(file.data)

\* C12, as claimed: a delete of an id that matches no record returns 404 and
\* leaves the file exactly as it was.
C12_DeleteUnknownUnchanged ==
    [][\A r \in Requests : DeleteUnknown(r) =>
        /\ resp'[r].status = 404
        /\ file' = file
        /\ writes' = writes]_vars

\* C12, amended: a delete of an id that matches no record returns 404 and
\* removes no record; it leaves the file exactly as it was when the file holds
\* no plaintext secret, and otherwise rewrites it once with each plaintext
\* secret replaced by its encryption and nothing else changed.
C12_DeleteUnknownMigratesOnly ==
    [][\A r \in Requests : DeleteUnknown(r) =>
        LET old == file.data
            new == file'.data
            legacy == \E i \in 1..Len(old) : Plaintext(old[i])
        IN  /\ Returns(r)
            /\ resp'[r] = [status |-> 404, body |-> [error |-> "Tenant not found"]]
            /\ file'.exists = file.exists
            /\ Len(new) = Len(old)
            /\ \A i \in 1..Len(old) :
                IF Plaintext(old[i])
                THEN /\ Pop(new[i], "clientSecret") = Pop(old[i], "clientSecret")
                     /\ EnvelopeForm(Secret(new[i]))
                     /\ _decrypt_secret(Secret(new[i])) = Secret(old[i])
                ELSE new[i] = old[i]
            /\ ~legacy => file' = file /\ writes' = writes
            /\ legacy => writes' = writes + 1]_vars

\* A delete of an unknown id was the first request on the store with a legacy
\* secret: one rewrite, both records kept.
C12_Witness ==
    /\ Done(1) /\ req[1].op = "delete" /\ resp[1].status = 404
    /\ pc[2] = "init"
    /\ writes = 1
    /\ Len(file.data) = 2
    /\ _decrypt_secret(Secret(file.data[2])) = Legacy
    /\ Secret(file.data[2]) # Legacy

\* The value is empty or made of blanks only.
AllBlank(value) == \A i \in 1..Len(value) : value[i] = Blank

\* A required field is absent from the payload or blank.
Incomplete(payload) ==
    \E k \in Required : k \notin DOMAIN payload \/ AllBlank(payload[k])

\* A create request arrives with this step.
CreateArrives(r) == pc[r] = "init" /\ req'[r].op = "create"

\* C13: create answers 400 exactly when a required field is absent or blank
\* after trimming; it then returns at once, without taking the lock of the
\* store, reading the file or writing it; a create with all four fields goes on
\* to read the store and ends with 201.
C13_CreateValidation ==
    /\ [](\A r \in Requests : (Done(r) /\ req[r].op = "create") =>
            /\ resp[r].status = 400 <=> Incomplete(req[r].payload)
            /\ resp[r].status = 201 <=> ~Incomplete(req[r].payload))
    /\ [][\A r \in Requests : CreateArrives(r) =>
            IF Incomplete(req'[r].payload)
            THEN /\ Returns(r)
                 /\ resp'[r] = [status |-> 400,
                                body |-> [error |-> "Missing required fields"]]
                 /\ file' = file /\ writes' = writes /\ lock' = lock
            ELSE pc'[r] = "create_read" /\ resp'[r] = NoResponse]_vars

\* A create with a blank secret was refused on the untouched store, and a
\* create with a padded name was accepted.
C13_Witness ==
    /\ Done(1) /\ req[1].op = "create" /\ resp[1].status = 400
    /\ req[1].payload = Update(Good, [clientSecret |-> <<" ">>])
    /\ Created(2) /\ req[2].payload["name"] = <<" ", "v", " ">>
    /\ resp[2].body["name"] = <<"v">>
    /\ writes = IF file.exists /\ Len(file.data) = 3 THEN 2 ELSE 1

\* The ids of the list, in its order.
IdList(list) == [i \in 1..Len(list) |-> Get(list[i], "id", NoId)]

DistinctIds(list) ==
    \A i, j \in 1..Len(list) : i # j => IdList(list)[i] # IdList(list)[j]

\* The write of create_tenant of request r.
CreateStep(r) == pc[r] = "create_write" /\ WriteStep(r)

RECURSIVE CountActive(_)
CountActive(users) ==
    IF users = <<>> THEN 0
    ELSE (IF "accountEnabled" \notin DOMAIN Head(users) \/ Head(users)["accountEnabled"]
          THEN 1 ELSE 0) + CountActive(Tail(users))

\* C15: totalUsers is the number of users, activeUsers the number of users
\* whose accountEnabled is true or absent, disabledUsers the difference of the
\* two; both lie in 0..totalUsers and add up to it, and userStatus repeats them.
C15_UserMetrics ==
    \A r \in Requests : Joined(r) =>
        LET users == agg[r].payload.users
            m == agg[r].payload.metrics
        IN  /\ m.totalUsers = Len(users)
            /\ m.activeUsers = CountActive(users)
            /\ m.disabledUsers = m.totalUsers - m.activeUsers
            /\ m.activeUsers + m.disabledUsers = m.totalUsers
            /\ m.activeUsers \in 0..m.totalUsers
            /\ m.disabledUsers \in 0..m.totalUsers
            /\ m.userStatus = [active |-> m.activeUsers, disabled |-> m.disabledUsers]

\* A disabled user and a user without the field: one active, one disabled.
C15_Witness ==
    \E r \in Requests :
        /\ Done(r) /\ req[r].op = "data" /\ resp[r].status = 200
        /\ resp[r].body.users = <<[accountEnabled |-> FALSE], [displayName |-> "u"]>>
        /\ resp[r].body.metrics.totalUsers = 2
        /\ resp[r].body.metrics.activeUsers = 1
        /\ resp[r].body.metrics.disabledUsers = 1

\* prepaidUnits.enabled of a SKU, a missing field counting as 0.
EnabledUnits(lic) ==
    IF "prepaidUnits" \in DOMAIN lic /\ "enabled" \in DOMAIN lic["prepaidUnits"]
    THEN lic["prepaidUnits"]["enabled"] ELSE 0

\* consumedUnits of a SKU, a missing field counting as 0.
ConsumedUnits(lic) == IF "consumedUnits" \in DOMAIN lic THEN lic["consumedUnits"] ELSE 0

RECURSIVE TotalOf(_)
TotalOf(licenses) ==
    IF licenses = <<>> THEN 0
    ELSE EnabledUnits(licenses[Len(licenses)])
            + TotalOf(SubSeq(licenses, 1, Len(licenses) - 1))

RECURSIVE UsedOf(_)
UsedOf(licenses) ==
    IF licenses = <<>> THEN 0
    ELSE ConsumedUnits(licenses[Len(licenses)])
            + UsedOf(SubSeq(licenses, 1, Len(licenses) - 1))

\* C16: totalLicenses is the sum of prepaidUnits.enabled, usedLicenses the sum
\* of consumedUnits, a missing field counting as 0; availableLicenses is their
\* difference, not clamped: negative exactly when more is used than enabled;
\* licenseStatus repeats the used and available numbers.
C16_LicenseMetrics ==
    \A r \in Requests : Joined(r) =>
        LET licenses == agg[r].payload.licenses
            m == agg[r].payload.metrics
        IN  /\ m.totalLicenses = TotalOf(licenses)
            /\ m.usedLicenses = UsedOf(licenses)
            /\ m.availableLicenses = m.totalLicenses - m.usedLicenses
            /\ m.availableLicenses < 0 <=> UsedOf(licenses) > TotalOf(licenses)
            /\ m.licenseStatus =
                    [used |-> m.usedLicenses, available |-> m.availableLicenses]

\* A SKU without prepaid units and three consumed, and a SKU with two enabled
\* and one consumed: two enabled, four used, minus two available.
C16_Witness ==
    \E r \in Requests :
        /\ Done(r) /\ req[r].op = "data" /\ resp[r].status = 200
        /\ resp[r].body.licenses =
                <<[consumedUnits |-> 3],
                  [prepaidUnits |-> [enabled |-> 2], consumedUnits |-> 1]>>
        /\ resp[r].body.metrics.totalLicenses = 2
        /\ resp[r].body.metrics.usedLicenses = 4
        /\ resp[r].body.metrics.availableLicenses = -2

\* lastSync, userCount and licenseCount of every record of the list.
SnapshotFields(list) ==
    [i \in 1..Len(list) |->
        <<Get(list[i], "lastSync", <<>>), Get(list[i], "userCount", 0),
          Get(list[i], "licenseCount", 0)>>]

NoFetchIssued(r) == \A k \in Resources : agg[r].fetch[k] = Pending

\* The aggregation of request r has ended at the credentials or at the token.
AbortedEarly(r) == Aggregates(r) /\ Done(r) /\ agg[r].status \in {404, 500}

\* C17: an aggregation whose credentials do not resolve ends with 404 before
\* the token exchange; one whose token exchange answers without an access token
\* ends with 500 and that answer under "details"; either way no fetch was
\* issued, no metrics were computed, no snapshot was stamped, and no step of it
\* changed lastSync, userCount or licenseCount of a record.
C17_EarlyAbort ==
    /\ [](\A r \in Requests : (Aggregates(r) /\ pc[r] # "creds_read") =>
            /\ ~AllSet(agg[r].creds) =>
                    AbortedEarly(r) /\ resp[r].status = 404 /\ agg[r].token = <<>>
            /\ (agg[r].token # <<>> /\ "access_token" \notin DOMAIN agg[r].token) =>
                    /\ AbortedEarly(r) /\ resp[r].status = 500
                    /\ "details" \in DOMAIN resp[r].body
                    /\ resp[r].body["details"] = agg[r].token
            /\ AbortedEarly(r) =>
                    /\ NoFetchIssued(r)
                    /\ agg[r].payload = <<>>
                    /\ resp[r].status = agg[r].status
                    /\ clock = 0)
    /\ [][\A r \in Requests : (Aggregates(r) /\ pc[r] \in {"creds_read", "token"}) =>
            /\ SnapshotFields(file'.data) = SnapshotFields(file.data)
            /\ IdList(file'.data) = IdList(file.data)]_vars

\* The token exchange answered without a token for the tenant with the legacy
\* secret: 500 with the answer, no fetch, the file rewritten by the migration
\* alone.
C17_Witness ==
    \E r \in Requests :
        /\ AbortedEarly(r) /\ resp[r].status = 500
        /\ "details" \in DOMAIN resp[r].body
        /\ resp[r].body["details"] = [error |-> "invalid_client"]
        /\ NoFetchIssued(r)
        /\ agg[r].creds[3] = Legacy
        /\ writes = 1
        /\ SnapshotFields(file.data) = << <<<<>>, 0, 0>>, <<<<>>, 0, 0>> >>

AllFetched(r) == \A k \in Resources : agg[r].fetch[k].done

\* The collection that the finished fetch of resource k handed over.
Collected(r, k) == Get(agg[r].fetch[k].data, "value", <<>>)

\* Metrics have been computed for request r.
HasMetrics(r) == agg[r].payload # <<>>

\* C18: the metrics are computed, and the snapshot is read and written, only
\* when each of the four fetches has finished (answered or failed soft); from
\* then on the four results stay as they are, and the payload is the four
\* collections with the metrics that C15 and C16 give for them, whichever
\* fetch finished first.
C18_JoinBeforeMetrics ==
    /\ [](\A r \in Requests :
            /\ (HasMetrics(r) \/ pc[r] \in {"snap_read", "snap_write", "sync_read"}
                    \/ agg[r].status = 200) => AllFetched(r)
            /\ HasMetrics(r) =>
                /\ \A k \in Resources : agg[r].payload[k] = Collected(r, k)
                /\ agg[r].payload.metrics.totalUsers = Len(Collected(r, "users"))
                /\ agg[r].payload.metrics.activeUsers = CountActive(Collected(r, "users"))
                /\ agg[r].payload.metrics.totalLicenses = TotalOf(Collected(r, "licenses"))
                /\ agg[r].payload.metrics.usedLicenses = UsedOf(Collected(r, "licenses")))
    /\ [][\A r \in Requests :
            /\ (~HasMetrics(r) /\ agg'[r].payload # <<>>) => AllFetched(r)
            /\ SnapshotWrite(r) => AllFetched(r) /\ HasMetrics(r)
            /\ AllFetched(r) => agg'[r].fetch = agg[r].fetch]_vars

\* A sync has written its snapshot after the users failed soft and the other
\* three fetches answered.
C18_Witness ==
    \E r \in Requests :
        /\ pc[r] = "sync_read" /\ AllFetched(r)
        /\ agg[r].fetch["users"].raised /\ ~agg[r].fetch["licenses"].raised
        /\ ~agg[r].fetch["groups"].raised /\ ~agg[r].fetch["sites"].raised
        /\ agg[r].payload.metrics.totalUsers = 0
        /\ agg[r].payload.metrics.totalLicenses = 4
        /\ \E i \in 1..Len(file.data) :
            /\ file.data[i]["id"] = req[r].id
            /\ file.data[i]["licenseCount"] = 4
            /\ file.data[i]["lastSync"] = IsoFormat(1)

\* C19: once the token is acquired and the fetches are issued, the aggregation
\* returns, also when an upstream call never answers.
C19_HungFetchTimesOut ==
    \A r \in Requests : (pc[r] = "fetch") ~> Done(r)

\* The text without its blanks.
Unpadded(text) == SelectSeq(text, LAMBDA c : c # Blank)

\* The latest process was started by this step.
Started == Len(fernet') = Len(fernet) + 1

\* C20: a key file that exists is never changed by a start; a start writes
\* the key file only when no key file exists and the configured key is blank or
\* not set, and then it writes the key it runs with; a start without a
\* configured key on an existing key file runs with the key of the file.
C20_KeyFileStable ==
    [][/\ keyFile.exists => keyFile' = keyFile
       /\ keyFile' # keyFile =>
            /\ Started
            /\ ~keyFile.exists /\ AllBlank(environ')
            /\ keyFile' = KeyFileOf(fernet'[Len(fernet')])
            /\ fernet'[Len(fernet')] \in ValidKeys
       /\ (Started /\ AllBlank(environ') /\ keyFile.exists) =>
            fernet'[Len(fernet')] = Fernet(Unpadded(keyFile.text))
       /\ (Started /\ ~AllBlank(environ')) =>
            /\ keyFile' = keyFile
            /\ fernet'[Len(fernet')] = Fernet(Unpadded(environ'))]_vars

\* The first process ran with the configured key and left no key file, the
\* second drew a key and wrote it, the third runs with the key of the file.
C20_Witness ==
    /\ Len(fernet) = 3
    /\ fernet[1] = <<EnvKey>>
    /\ fernet[2] \in {<<g>> : g \in KeyPool}
    /\ fernet[3] = fernet[2]
    /\ keyFile = KeyFileOf(fernet[2])
    /\ AllBlank(environ)

\* The delete of request r has returned success.
Deleted(r) == Done(r) /\ req[r].op = "delete" /\ resp[r].status = 200

\* C21: once a delete has returned success, the store holds no record with
\* its id, whatever the other requests go on to write.
C21_DeletedStaysDeleted ==
    \A r \in Requests : Deleted(r) => req[r].id \notin IdsOf(file.data)

====
